---- MODULE Spec2Model ----
(***************************************************************************)
(* A model of pelican/__init__.py: the generator composer                  *)
(* (Pelican.get_generator_classes), the two-phase build (Pelican.run),     *)
(* the construction of the orchestrator (get_instance, Pelican.__init__,   *)
(* Pelican.init_plugins) and the driver with its autoreload loop (main).   *)
(*                                                                         *)
(* Three specifications share the definitions:                             *)
(*   SpecCompose  get_generator_classes over every flag combination and    *)
(*                every bounded sequence of hook results;                  *)
(*   SpecRun      one Pelican.run over every flag combination, path pair   *)
(*                and delete flag, one statement per step;                 *)
(*   Spec         main(): start-up, the one-shot build and the autoreload  *)
(*                loop, with Pelican.run stepping inside it.               *)
(***************************************************************************)
EXTENDS Naturals, Sequences, FiniteSets

VARIABLES
    \* ---- Pelican.run (one build) ----
    pelican,            \* the orchestrator instance main holds (its local `pelican`)
    hookReturn,         \* what signals.get_generators.send(self) returns (the values)
    rpc,                \* position inside Pelican.run
    runSelf,            \* the instance the current/last run was called on (self)
    generators,         \* run's local list `generators` (one instance per class)
    context,            \* the context objects run has created, by object id
    genObj,             \* per generator instance: the objects it refers to
    idx,                \* index of the for loops of run
    calls,              \* calls made by the build in progress, in order
    rexc,               \* the error leaving the run in progress, NoError if none
    composed,           \* results of successive get_generator_classes calls
    \* ---- main ----
    args,               \* parsed arguments: autoreload, verbosity
    pc,                 \* position inside main
    files_found_error,  \* main's warn-once gate
    exc,                \* the error being handled / that ended main
    stepLog,            \* the line the last step logged, "none" if it logged nothing
    iter,               \* number of poll iterations begun
    iterEnds,           \* how the last two finished iterations ended
    lastWarned,         \* whether the last finished iteration logged the no-files warning
    cfgOnDisk,          \* what read_settings would load now
    nInst,              \* number of orchestrator instances constructed so far
    ctor,               \* the latest construction attempt (get_instance call)
    regCount,           \* per plugin: how many times register() was invoked
    nInitialized,       \* how many times signals.initialized was sent
    slept,              \* a time.sleep has returned since the last change check
    exitStatus          \* argument of sys.exit, when main ended that way

runVars  == <<pelican, hookReturn, rpc, runSelf, generators, context, genObj, idx,
              calls, rexc>>
mainVars == <<args, pc, files_found_error, exc, stepLog, iter, iterEnds,
              lastWarned, cfgOnDisk, nInst, ctor, regCount, nInitialized, slept,
              exitStatus>>
vars     == <<runVars, composed, mainVars>>

----------------------------------------------------------------------------
(* Bounds of the model *)

\* longest sequence of hook subscriber results explored by SpecCompose
MaxHooks == 2
\* poll iterations of the autoreload loop explored by Spec
MaxIter == 3
\* get_generator_classes calls on one instance explored by SpecCompose
MaxCalls == 2

----------------------------------------------------------------------------
(* Values *)

BaseGenerators == <<"StaticGenerator", "ArticlesGenerator", "PagesGenerator">>

\* Values for which isinstance(v, type) holds: the generator classes of
\* pelican.generators and two classes contributed by plugins.
Types == {"StaticGenerator", "ArticlesGenerator", "PagesGenerator",
          "TemplatePagesGenerator", "PdfGenerator", "LessCSSGenerator",
          "SourceFileGenerator", "HookGenA", "HookGenB"}

\* A value a subscriber may return that is not a type.
NonTypes == {"not_a_type"}

\* isinstance(v, type)
IsType(v) == v \in Types

\* A subscriber's return value: a single item, or a tuple/list of items.
Single(v) == [isSeq |-> FALSE, val |-> v, elems |-> <<>>]
Tuple(s)  == [isSeq |-> TRUE, val |-> "", elems |-> s]

HookValues ==
    { Single("HookGenA"), Single("not_a_type"),
      Tuple(<<"HookGenB", "HookGenA">>), Tuple(<<"not_a_type", "HookGenB">>),
      Tuple(<<>>) }

HookResults == UNION { [1..n -> HookValues] : n \in 0..MaxHooks }

\* hasattr(p, 'generate_context') / hasattr(p, 'generate_output'): decided by
\* the generator classes, which live outside this file.  LessCSSGenerator and
\* TemplatePagesGenerator only emit; HookGenA only populates the context.
HasContext(cls) == cls \notin {"LessCSSGenerator", "TemplatePagesGenerator"}
HasOutput(cls)  == cls /= "HookGenA"

\* Exceptions.  NoFilesError is a subclass of Exception, KeyboardInterrupt is not.
NoError == [kind |-> "none", hasExitcode |-> FALSE, exitcode |-> 0]
Errors ==
    { [kind |-> "NoFilesError",      hasExitcode |-> FALSE, exitcode |-> 0],
      [kind |-> "Exception",         hasExitcode |-> FALSE, exitcode |-> 0],
      [kind |-> "Exception",         hasExitcode |-> TRUE,  exitcode |-> 3],
      [kind |-> "KeyboardInterrupt", hasExitcode |-> FALSE, exitcode |-> 0] }

IsException(e) == e.kind \in {"NoFilesError", "Exception"}

----------------------------------------------------------------------------
(* Paths: strings, as sequences of characters *)

PathA  == <<"/", "a">>
PathAC == <<"/", "a", "/", "c">>
PathAB == <<"/", "a", "b">>
PathL  == <<"/", "l">>
PathLC == <<"/", "l", "/", "c">>
Paths  == {PathA, PathAC, PathAB, PathL, PathLC}

\* The file system has one symbolic link, /l -> /a.
LinkName   == PathL
LinkTarget == PathA

\* str.startswith
startswith(s, prefix) ==
    /\ Len(prefix) <= Len(s)
    /\ SubSeq(s, 1, Len(prefix)) = prefix

\* os.path.realpath on an absolute, normalised path: the link is followed.
realpath(p) ==
    IF p = LinkName THEN LinkTarget
    ELSE IF startswith(p, LinkName \o <<"/">>)
         THEN LinkTarget \o SubSeq(p, Len(LinkName) + 1, Len(p))
         ELSE p

----------------------------------------------------------------------------
(* Settings and instances *)

Flags == [TEMPLATE_PAGES : BOOLEAN, PDF_GENERATOR : BOOLEAN,
          LESS_GENERATOR : BOOLEAN, OUTPUT_SOURCES : BOOLEAN]

MkSettings(f, webassets, path, out, del, plugins) ==
    [TEMPLATE_PAGES |-> f.TEMPLATE_PAGES, PDF_GENERATOR |-> f.PDF_GENERATOR,
     LESS_GENERATOR |-> f.LESS_GENERATOR, OUTPUT_SOURCES |-> f.OUTPUT_SOURCES,
     WEBASSETS |-> webassets, PATH |-> path, OUTPUT_PATH |-> out,
     DELETE_OUTPUT_DIRECTORY |-> del, PLUGINS |-> plugins]

\* Pelican.__init__: the attributes copied from the settings.
NewPelican(id, settings) ==
    [id |-> id, settings |-> settings, path |-> settings.PATH,
     output_path |-> settings.OUTPUT_PATH,
     delete_outputdir |-> settings.DELETE_OUTPUT_DIRECTORY]

----------------------------------------------------------------------------
(* Pelican.get_generator_classes *)

\* value = (value, ) unless it is a tuple or list already
AsTuple(value) == IF ~value.isSeq THEN <<value.val>> ELSE value.elems

\* mutant: every element is appended, a type or not
AppendTypes_KeepsAll(gens, value) == gens \o value

\* the inner loop: append the elements that are types
RECURSIVE AppendTypes(_, _)
AppendTypes(gens, value) ==
    IF value = <<>> THEN gens
    ELSE AppendTypes(IF IsType(Head(value)) THEN Append(gens, Head(value)) ELSE gens,
                     Tail(value))

\* the outer loop over the pairs signals.get_generators.send returns
RECURSIVE AppendHooks(_, _)
AppendHooks(gens, pairs) ==
    IF pairs = <<>> THEN gens
    ELSE AppendHooks(AppendTypes(gens, AsTuple(Head(pairs))), Tail(pairs))

AppendIf(gens, flag, cls) == IF flag THEN Append(gens, cls) ELSE gens

\* mutant: LessCSS appended before Pdf
ConditionalGenerators_LessBeforePdf(gens, settings) ==
    AppendIf(AppendIf(AppendIf(AppendIf(gens,
        settings.TEMPLATE_PAGES, "TemplatePagesGenerator"),
        settings.LESS_GENERATOR, "LessCSSGenerator"),
        settings.PDF_GENERATOR, "PdfGenerator"),
        settings.OUTPUT_SOURCES, "SourceFileGenerator")

ConditionalGenerators(gens, settings) ==
    AppendIf(AppendIf(AppendIf(AppendIf(gens,
        settings.TEMPLATE_PAGES, "TemplatePagesGenerator"),
        settings.PDF_GENERATOR, "PdfGenerator"),
        settings.LESS_GENERATOR, "LessCSSGenerator"),
        settings.OUTPUT_SOURCES, "SourceFileGenerator")

get_generator_classes(settings, hooks) ==
    AppendHooks(ConditionalGenerators(BaseGenerators, settings), hooks)

----------------------------------------------------------------------------
(* Pelican.run, one statement per step.  The caller sets rpc = "start" and   *)
(* runSelf to the instance run is called on; run leaves rpc = "returned" or  *)
(* rpc = "raised" with the error in rexc.                                    *)

Call(op, i) == [op |-> op, i |-> i]

Outcomes == {NoError} \cup Errors

\* The content of the settings mapping, and of a fresh copy of it: one mark
\* for the keys of the settings; generator i adds the mark i.
SettingsContent == {0}

\* cls(context, self.settings, ...): the instance keeps the context object it
\* is given; it has an assets_env object of its own and no
\* env.assets_environment yet.  sawInContext and sawInOutput record the
\* content of its context object when its two operations were called.
NewGenerator(i, ctx) ==
    [context |-> ctx, assets_env |-> i, assets_environment |-> 0,
     sawInContext |-> {}, sawInOutput |-> {}]

\* mutant: every generator is given a copy of the settings of its own
RunStart_CopyPerGenerator ==
    /\ rpc = "start"
    /\ generators' = get_generator_classes(runSelf.settings, hookReturn)
    /\ context' = [i \in 1..Len(get_generator_classes(runSelf.settings, hookReturn))
                     |-> SettingsContent]
    /\ genObj' = [i \in 1..Len(get_generator_classes(runSelf.settings, hookReturn))
                     |-> NewGenerator(i, i)]
    /\ idx' = 1
    /\ calls' = <<>>
    /\ rexc' = NoError
    /\ rpc' = "context"
    /\ UNCHANGED <<pelican, hookReturn, runSelf, composed, mainVars>>

\* context = self.settings.copy(); generators = [cls(...) for cls in
\* self.get_generator_classes()]
RunStart ==
    /\ rpc = "start"
    /\ generators' = get_generator_classes(runSelf.settings, hookReturn)
    /\ context' = <<SettingsContent>>
    /\ genObj' = [i \in 1..Len(get_generator_classes(runSelf.settings, hookReturn))
                     |-> NewGenerator(i, 1)]
    /\ idx' = 1
    /\ calls' = <<>>
    /\ rexc' = NoError
    /\ rpc' = "context"
    /\ UNCHANGED <<pelican, hookReturn, runSelf, composed, mainVars>>

\* mutant: a single loop that calls generate_output right after generate_context
RunContext_EmitsAtOnce ==
    /\ rpc = "context"
    /\ idx <= Len(generators)
    /\ calls' = (IF HasContext(generators[idx])
                 THEN Append(calls, Call("generate_context", idx)) ELSE calls)
                \o (IF HasOutput(generators[idx])
                    THEN <<Call("generate_output", idx)>> ELSE <<>>)
    /\ idx' = idx + 1
    /\ UNCHANGED <<pelican, hookReturn, rpc, runSelf, generators, context, genObj, rexc, composed,
                   mainVars>>

\* mutant: an error of generate_context is noted and the loop goes on
RunContext_SwallowsErrors ==
    /\ rpc = "context"
    /\ idx <= Len(generators)
    /\ IF HasContext(generators[idx])
       THEN \E o \in Outcomes :
              /\ calls' = Append(calls, Call("generate_context", idx))
              /\ genObj' = [genObj EXCEPT ![idx].sawInContext =
                                        context[genObj[idx].context]]
              /\ context' = [context EXCEPT ![genObj[idx].context] =
                                          @ \cup {idx}]
              /\ idx' = idx + 1
              /\ rexc' = o
              /\ UNCHANGED rpc
       ELSE idx' = idx + 1 /\ UNCHANGED <<calls, rpc, rexc, context, genObj>>
    /\ UNCHANGED <<pelican, hookReturn, runSelf, generators, composed, mainVars>>

\* for p in generators: if hasattr(p, 'generate_context'): p.generate_context()
RunContext ==
    /\ rpc = "context"
    /\ idx <= Len(generators)
    /\ IF HasContext(generators[idx])
       THEN \E o \in Outcomes :
              /\ calls' = Append(calls, Call("generate_context", idx))
              /\ genObj' = [genObj EXCEPT ![idx].sawInContext =
                                        context[genObj[idx].context]]
              /\ context' = [context EXCEPT ![genObj[idx].context] =
                                          @ \cup {idx}]
              /\ IF o = NoError
                 THEN idx' = idx + 1 /\ UNCHANGED <<rpc, rexc>>
                 ELSE rpc' = "raised" /\ rexc' = o /\ UNCHANGED idx
       ELSE idx' = idx + 1 /\ UNCHANGED <<calls, rpc, rexc, context, genObj>>
    /\ UNCHANGED <<pelican, hookReturn, runSelf, generators, composed, mainVars>>

\* mutant: the operands of startswith exchanged
ShouldClean_Swapped(self) ==
    /\ self.delete_outputdir
    /\ ~startswith(self.output_path, realpath(self.path))

\* self.delete_outputdir and not
\*     os.path.realpath(self.path).startswith(self.output_path)
ShouldClean(self) ==
    /\ self.delete_outputdir
    /\ ~startswith(realpath(self.path), self.output_path)

\* the end of the first loop, then: if (...): clean_output_dir(self.output_path)
RunClean ==
    /\ rpc = "context"
    /\ idx > Len(generators)
    /\ IF ShouldClean(runSelf)
       THEN \E o \in Outcomes :
              /\ calls' = Append(calls, Call("clean_output_dir", 0))
              /\ IF o = NoError
                 THEN rpc' = "writer" /\ UNCHANGED rexc
                 ELSE rpc' = "raised" /\ rexc' = o
       ELSE rpc' = "writer" /\ UNCHANGED <<calls, rexc>>
    /\ UNCHANGED <<pelican, hookReturn, runSelf, generators, context, genObj, idx, composed, mainVars>>

\* mutant: the directory is cleared again once the writer exists
RunWriter_ThenClean ==
    /\ rpc = "writer"
    /\ calls' = Append(calls, Call("Writer", 0))
                \o (IF ShouldClean(runSelf)
                    THEN <<Call("clean_output_dir", 0)>> ELSE <<>>)
    /\ rpc' = "wire"
    /\ UNCHANGED <<pelican, hookReturn, runSelf, generators, context, genObj, idx,
                   rexc, composed, mainVars>>

\* writer = self.get_writer()
RunWriter ==
    /\ rpc = "writer"
    /\ calls' = Append(calls, Call("Writer", 0))
    /\ rpc' = "wire"
    /\ UNCHANGED <<pelican, hookReturn, runSelf, generators, context, genObj, idx, rexc, composed,
                   mainVars>>

\* mutant: the first and the second element of the list are wired
RunWire_OffByOne ==
    /\ rpc = "wire"
    /\ calls' = IF runSelf.settings.WEBASSETS
                THEN Append(calls, Call("assets_environment", 0))
                ELSE calls
    /\ genObj' = IF runSelf.settings.WEBASSETS
                 THEN [genObj EXCEPT
                         ![1].assets_environment = genObj[1].assets_env,
                         ![2].assets_environment = genObj[1].assets_env]
                 ELSE genObj
    /\ idx' = 1
    /\ rpc' = "output"
    /\ UNCHANGED <<pelican, hookReturn, runSelf, generators, context, rexc,
                   composed, mainVars>>

\* if self.settings['WEBASSETS']: generators[1].env.assets_environment = ...
RunWire ==
    /\ rpc = "wire"
    /\ calls' = IF runSelf.settings.WEBASSETS
                THEN Append(calls, Call("assets_environment", 0))
                ELSE calls
    /\ genObj' = IF runSelf.settings.WEBASSETS
                 THEN [genObj EXCEPT
                         ![2].assets_environment = genObj[1].assets_env,
                         ![3].assets_environment = genObj[1].assets_env]
                 ELSE genObj
    /\ idx' = 1
    /\ rpc' = "output"
    /\ UNCHANGED <<pelican, hookReturn, runSelf, generators, context, rexc, composed, mainVars>>

\* for p in generators: if hasattr(p, 'generate_output'): p.generate_output(writer)
RunOutput ==
    /\ rpc = "output"
    /\ idx <= Len(generators)
    /\ IF HasOutput(generators[idx])
       THEN \E o \in Outcomes :
              /\ calls' = Append(calls, Call("generate_output", idx))
              /\ genObj' = [genObj EXCEPT ![idx].sawInOutput =
                                        context[genObj[idx].context]]
              /\ IF o = NoError
                 THEN idx' = idx + 1 /\ UNCHANGED <<rpc, rexc>>
                 ELSE rpc' = "raised" /\ rexc' = o /\ UNCHANGED idx
       ELSE idx' = idx + 1 /\ UNCHANGED <<calls, rpc, rexc, genObj>>
    /\ UNCHANGED <<pelican, hookReturn, runSelf, generators, context, composed, mainVars>>

\* the end of the second loop, then: signals.finalized.send(self)
RunFinalize ==
    /\ rpc = "output"
    /\ idx > Len(generators)
    /\ calls' = Append(calls, Call("finalized", 0))
    /\ rpc' = "returned"
    /\ UNCHANGED <<pelican, hookReturn, runSelf, generators, context, genObj, idx, rexc, composed,
                   mainVars>>

RunStep ==
    \/ RunStart
    \/ RunContext
    \/ RunClean
    \/ RunWriter
    \/ RunWire
    \/ RunOutput
    \/ RunFinalize

----------------------------------------------------------------------------
(* Initial values shared by the specifications *)

NoCtor == [cfg |-> 0, regLog |-> <<>>, ok |-> FALSE, initialized |-> FALSE]

Plugins == {"p1", "p2"}

MainIdle ==
    /\ args = [autoreload |-> FALSE, debug |-> FALSE]
    /\ pc = "in_run"
    /\ files_found_error = TRUE
    /\ exc = NoError
    /\ stepLog = "none"
    /\ iter = 0
    /\ iterEnds = <<>>
    /\ lastWarned = FALSE
    /\ cfgOnDisk = 0
    /\ nInst = 1
    /\ ctor = NoCtor
    /\ regCount = [p \in Plugins |-> 0]
    /\ nInitialized = 1
    /\ slept = FALSE
    /\ exitStatus = 0

RunIdle ==
    /\ generators = <<>>
    /\ context = <<>>
    /\ genObj = <<>>
    /\ idx = 1
    /\ calls = <<>>
    /\ rexc = NoError

----------------------------------------------------------------------------
(* SpecRun: one build, for every flag combination, path pair and delete flag *)

RunHooks ==
    { <<>>,
      <<Single("HookGenA")>>,
      <<Tuple(<<"not_a_type", "HookGenB">>), Single("HookGenA")>> }

RunSettings ==
    { MkSettings(f, w, p, o, d, <<>>) :
        f \in Flags, w \in BOOLEAN, p \in Paths, o \in Paths, d \in BOOLEAN }

InitRun ==
    /\ pelican \in { NewPelican(1, s) : s \in RunSettings }
    /\ hookReturn \in RunHooks
    /\ runSelf = pelican
    /\ rpc = "start"
    /\ RunIdle
    /\ composed = <<>>
    /\ MainIdle

SpecRun == InitRun /\ [][RunStep]_vars

----------------------------------------------------------------------------
(* SpecCompose: get_generator_classes, called repeatedly on one instance *)

CallGetGeneratorClasses ==
    /\ Len(composed) < MaxCalls
    /\ composed' = Append(composed,
                          get_generator_classes(pelican.settings, hookReturn))
    /\ UNCHANGED <<runVars, mainVars>>

InitCompose ==
    /\ pelican \in { NewPelican(1, MkSettings(f, FALSE, PathAC, PathAB, FALSE, <<>>)) :
                       f \in Flags }
    /\ hookReturn \in HookResults
    /\ runSelf = pelican
    /\ rpc = "idle"
    /\ RunIdle
    /\ composed = <<>>
    /\ MainIdle

SpecCompose == InitCompose /\ [][CallGetGeneratorClasses]_vars

----------------------------------------------------------------------------
(* get_instance: read_settings, then cls(settings), that is Pelican.__init__ *)
(* with init_plugins and the `initialized` notification.                     *)

ConfigIds == {1, 2}

\* The settings read_settings returns for each content of the settings file.
Configs(c) ==
    IF c = 1
    THEN MkSettings([TEMPLATE_PAGES |-> FALSE, PDF_GENERATOR |-> FALSE,
                     LESS_GENERATOR |-> FALSE, OUTPUT_SOURCES |-> FALSE],
                    FALSE, PathAC, PathAB, FALSE, <<"p1">>)
    ELSE MkSettings([TEMPLATE_PAGES |-> FALSE, PDF_GENERATOR |-> FALSE,
                     LESS_GENERATOR |-> TRUE, OUTPUT_SOURCES |-> FALSE],
                    TRUE, PathAC, PathAB, TRUE, <<"p1", "p2">>)

\* Where a get_instance call fails, if it does: in read_settings, in the
\* import of plugin k, in the register() of plugin k, or nowhere.
FailPoints(plugins) ==
    {[at |-> "none", k |-> 0]} \cup {[at |-> "read_settings", k |-> 0]}
    \cup { [at |-> a, k |-> k] : a \in {"import", "register"}, k \in 1..Len(plugins) }

\* mutant: the plugins are registered from the last to the first
init_plugins_Reversed(plugins, fp) ==
    IF fp.at = "none" THEN [i \in 1..Len(plugins) |-> plugins[Len(plugins) + 1 - i]]
    ELSE IF fp.at = "read_settings" THEN <<>>
    ELSE IF fp.at = "import" THEN SubSeq(plugins, 1, fp.k - 1)
    ELSE SubSeq(plugins, 1, fp.k)

\* init_plugins: the plugins whose register() is invoked, in order, when the
\* loop fails at `fp` (a register() that raises was invoked).
init_plugins(plugins, fp) ==
    IF fp.at = "none" THEN plugins
    ELSE IF fp.at = "read_settings" THEN <<>>
    ELSE IF fp.at = "import" THEN SubSeq(plugins, 1, fp.k - 1)
    ELSE SubSeq(plugins, 1, fp.k)

\* mutant: signals.initialized is sent before init_plugins is called
Construct_InitializedBeforePlugins(c, fp) ==
    [cfg |-> c, regLog |-> init_plugins(Configs(c).PLUGINS, fp),
     ok |-> fp.at = "none", initialized |-> fp.at /= "read_settings"]

\* The construction attempt: which registrations it made, whether it returned
\* an instance, whether signals.initialized was sent.
Construct(c, fp) ==
    [cfg |-> c, regLog |-> init_plugins(Configs(c).PLUGINS, fp),
     ok |-> fp.at = "none", initialized |-> fp.at = "none"]

Occurrences(seq, x) == Cardinality({i \in 1..Len(seq) : seq[i] = x})

\* The effect of a get_instance call on the process-wide state.
Registered(fp) ==
    /\ ctor' = Construct(cfgOnDisk, fp)
    /\ regCount' = [p \in Plugins |->
                      regCount[p] + Occurrences(Construct(cfgOnDisk, fp).regLog, p)]
    /\ nInitialized' = nInitialized
                         + (IF Construct(cfgOnDisk, fp).initialized THEN 1 ELSE 0)

NoPelican == NewPelican(0, Configs(1))

\* sys.exit(getattr(e, 'exitcode', 1))
DefaultExitcode == 1
ExitcodeOf(e) == IF e.hasExitcode THEN e.exitcode ELSE DefaultExitcode

\* The last two iteration ends, the latest last.
Push(ends, e) == IF Len(ends) < 2 THEN Append(ends, e) ELSE <<ends[2], e>>

----------------------------------------------------------------------------
(* main *)

\* pelican = get_instance(args), before the try statement
Startup ==
    /\ pc = "start"
    /\ \E fp \in FailPoints(Configs(cfgOnDisk).PLUGINS) :
         /\ Registered(fp)
         /\ IF fp.at = "none"
            THEN /\ nInst' = nInst + 1
                 /\ pelican' = NewPelican(nInst + 1, Configs(cfgOnDisk))
                 /\ pc' = IF args.autoreload THEN "loop" ELSE "oneshot"
                 /\ UNCHANGED exc
            ELSE /\ \E e \in Errors : exc' = e
                 /\ pc' = "raised_startup"
                 /\ UNCHANGED <<nInst, pelican>>
    /\ stepLog' = "none"
    /\ UNCHANGED slept
    /\ UNCHANGED <<hookReturn, rpc, runSelf, generators, context, genObj, idx, calls, rexc, composed,
                   args, files_found_error, iter, iterEnds, lastWarned, cfgOnDisk,
                   exitStatus>>

\* else: pelican.run()
OneshotRun ==
    /\ pc = "oneshot"
    /\ rpc' = "start"
    /\ runSelf' = pelican
    /\ pc' = "run_oneshot"
    /\ stepLog' = "none"
    /\ UNCHANGED <<pelican, hookReturn, generators, context, genObj, idx, calls, rexc, composed,
                   args, files_found_error, exc, iter, iterEnds, lastWarned,
                   cfgOnDisk, nInst, ctor, regCount, nInitialized, slept, exitStatus>>

\* the one-shot run returns, or its error reaches `except Exception, e`
\* (KeyboardInterrupt is no Exception and leaves main)
OneshotDone ==
    /\ pc = "run_oneshot"
    /\ rpc \in {"returned", "raised"}
    /\ rpc' = "idle"
    /\ generators' = <<>> /\ idx' = 1 /\ calls' = <<>> /\ rexc' = NoError
    /\ context' = <<>> /\ genObj' = <<>>
    /\ IF rpc = "returned"
       THEN pc' = "returned" /\ UNCHANGED exc
       ELSE /\ exc' = rexc
            /\ pc' = IF IsException(rexc) THEN "outer_except" ELSE "raised_uncaught"
    /\ stepLog' = "none"
    /\ UNCHANGED <<pelican, hookReturn, runSelf, composed, args, files_found_error, iter, iterEnds, lastWarned,
                   cfgOnDisk, nInst, ctor, regCount, nInitialized, slept, exitStatus>>

\* except Exception, e: logger.critical(...); raise under DEBUG, else sys.exit
OuterExcept ==
    /\ pc = "outer_except"
    /\ stepLog' = "critical"
    /\ IF args.debug
       THEN pc' = "raised_debug" /\ UNCHANGED exitStatus
       ELSE pc' = "exited" /\ exitStatus' = ExitcodeOf(exc)
    /\ UNCHANGED <<runVars, composed, args, files_found_error, exc, iter, iterEnds,
                   lastWarned, cfgOnDisk, nInst, ctor, regCount, nInitialized, slept>>

\* while True: ... files_changed(pelican.path, pelican.markup)
CheckFiles ==
    /\ pc = "loop"
    /\ iter < MaxIter
    /\ iter' = iter + 1
    /\ slept' = FALSE
    /\ \/ pc' = "changed" /\ UNCHANGED exc
       \/ pc' = "check_theme" /\ UNCHANGED exc
       \/ \E e \in Errors : exc' = e /\ pc' = "except"
    /\ stepLog' = "none"
    /\ UNCHANGED <<runVars, composed, args, files_found_error, iterEnds, lastWarned,
                   cfgOnDisk, nInst, ctor, regCount, nInitialized, exitStatus>>

\* ... or files_changed(pelican.theme, [''])
CheckTheme ==
    /\ pc = "check_theme"
    /\ \/ pc' = "changed" /\ UNCHANGED exc
       \/ pc' = "check_settings" /\ UNCHANGED exc
       \/ \E e \in Errors : exc' = e /\ pc' = "except"
    /\ stepLog' = "none"
    /\ UNCHANGED <<runVars, composed, args, files_found_error, iter, iterEnds,
                   lastWarned, cfgOnDisk, nInst, ctor, regCount, nInitialized, slept, exitStatus>>

\* if not files_found_error: files_found_error = True; pelican.run()
ChangedRun ==
    /\ pc = "changed"
    /\ files_found_error' = TRUE
    /\ rpc' = "start"
    /\ runSelf' = pelican
    /\ pc' = "run_changed"
    /\ stepLog' = "none"
    /\ UNCHANGED <<pelican, hookReturn, generators, context, genObj, idx, calls, rexc, composed,
                   args, exc, iter, iterEnds, lastWarned, cfgOnDisk, nInst, ctor,
                   regCount, nInitialized, slept, exitStatus>>

\* that run returns, or raises into the handlers of the loop
ChangedDone ==
    /\ pc = "run_changed"
    /\ rpc \in {"returned", "raised"}
    /\ rpc' = "idle"
    /\ generators' = <<>> /\ idx' = 1 /\ calls' = <<>> /\ rexc' = NoError
    /\ context' = <<>> /\ genObj' = <<>>
    /\ IF rpc = "returned"
       THEN pc' = "check_settings" /\ UNCHANGED exc
       ELSE pc' = "except" /\ exc' = rexc
    /\ stepLog' = "none"
    /\ UNCHANGED <<pelican, hookReturn, runSelf, composed, args, files_found_error, iter, iterEnds, lastWarned,
                   cfgOnDisk, nInst, ctor, regCount, nInitialized, slept, exitStatus>>

\* if file_changed(args.settings): logger.info('%s changed, re-generating')
CheckSettings ==
    /\ pc = "check_settings"
    /\ \/ /\ \E c \in ConfigIds : cfgOnDisk' = c
          /\ pc' = "reload"
          /\ stepLog' = "info_changed"
          /\ UNCHANGED exc
       \/ pc' = "sleep" /\ stepLog' = "none" /\ UNCHANGED <<exc, cfgOnDisk>>
       \/ /\ \E e \in Errors : exc' = e
          /\ pc' = "except"
          /\ stepLog' = "none"
          /\ UNCHANGED cfgOnDisk
    /\ UNCHANGED <<runVars, composed, args, files_found_error, iter, iterEnds,
                   lastWarned, nInst, ctor, regCount, nInitialized, slept, exitStatus>>

\* mutant: the instance get_instance returns is not assigned to `pelican`
Reload_KeepsOldInstance ==
    /\ pc = "reload"
    /\ \E fp \in FailPoints(Configs(cfgOnDisk).PLUGINS) :
         /\ Registered(fp)
         /\ IF fp.at = "none"
            THEN /\ nInst' = nInst + 1
                 /\ pc' = "reloaded"
                 /\ UNCHANGED exc
            ELSE /\ \E e \in Errors : exc' = e
                 /\ pc' = "except"
                 /\ UNCHANGED nInst
    /\ stepLog' = "none"
    /\ UNCHANGED slept
    /\ UNCHANGED <<pelican, hookReturn, rpc, runSelf, generators, context, genObj, idx, calls, rexc,
                   composed, args, files_found_error, iter, iterEnds, lastWarned,
                   cfgOnDisk, exitStatus>>

\* mutant: a get_instance call that fails leaves `pelican` without an instance
Reload_ClearsOnFailure ==
    /\ pc = "reload"
    /\ \E fp \in FailPoints(Configs(cfgOnDisk).PLUGINS) :
         /\ Registered(fp)
         /\ IF fp.at = "none"
            THEN /\ nInst' = nInst + 1
                 /\ pelican' = NewPelican(nInst + 1, Configs(cfgOnDisk))
                 /\ pc' = "reloaded"
                 /\ UNCHANGED exc
            ELSE /\ \E e \in Errors : exc' = e
                 /\ pc' = "except"
                 /\ pelican' = NoPelican
                 /\ UNCHANGED nInst
    /\ stepLog' = "none"
    /\ UNCHANGED slept
    /\ UNCHANGED <<hookReturn, rpc, runSelf, generators, context, genObj, idx, calls,
                   rexc, composed, args, files_found_error, iter, iterEnds,
                   lastWarned, cfgOnDisk, exitStatus>>

\* pelican = get_instance(args)
Reload ==
    /\ pc = "reload"
    /\ \E fp \in FailPoints(Configs(cfgOnDisk).PLUGINS) :
         /\ Registered(fp)
         /\ IF fp.at = "none"
            THEN /\ nInst' = nInst + 1
                 /\ pelican' = NewPelican(nInst + 1, Configs(cfgOnDisk))
                 /\ pc' = "reloaded"
                 /\ UNCHANGED exc
            ELSE /\ \E e \in Errors : exc' = e
                 /\ pc' = "except"
                 /\ UNCHANGED <<nInst, pelican>>
    /\ stepLog' = "none"
    /\ UNCHANGED slept
    /\ UNCHANGED <<hookReturn, rpc, runSelf, generators, context, genObj, idx, calls, rexc, composed,
                   args, files_found_error, iter, iterEnds, lastWarned, cfgOnDisk,
                   exitStatus>>

\* pelican.run() with the instance just assigned
ReloadRun ==
    /\ pc = "reloaded"
    /\ rpc' = "start"
    /\ runSelf' = pelican
    /\ pc' = "run_reload"
    /\ stepLog' = "none"
    /\ UNCHANGED <<pelican, hookReturn, generators, context, genObj, idx, calls, rexc, composed,
                   args, files_found_error, exc, iter, iterEnds, lastWarned,
                   cfgOnDisk, nInst, ctor, regCount, nInitialized, slept, exitStatus>>

ReloadDone ==
    /\ pc = "run_reload"
    /\ rpc \in {"returned", "raised"}
    /\ rpc' = "idle"
    /\ generators' = <<>> /\ idx' = 1 /\ calls' = <<>> /\ rexc' = NoError
    /\ context' = <<>> /\ genObj' = <<>>
    /\ IF rpc = "returned"
       THEN pc' = "sleep" /\ UNCHANGED exc
       ELSE pc' = "except" /\ exc' = rexc
    /\ stepLog' = "none"
    /\ UNCHANGED <<pelican, hookReturn, runSelf, composed, args, files_found_error, iter, iterEnds, lastWarned,
                   cfgOnDisk, nInst, ctor, regCount, nInitialized, slept, exitStatus>>

KeyboardInterrupt == [kind |-> "KeyboardInterrupt", hasExitcode |-> FALSE, exitcode |-> 0]

\* time.sleep(.5): the iteration ends, unless the sleep is interrupted
Sleep ==
    /\ pc = "sleep"
    /\ \/ /\ pc' = "loop"
          /\ iterEnds' = Push(iterEnds, "normal")
          /\ lastWarned' = FALSE
          /\ slept' = TRUE
          /\ UNCHANGED exc
       \/ /\ pc' = "except"
          /\ exc' = KeyboardInterrupt
          /\ UNCHANGED <<iterEnds, lastWarned, slept>>
    /\ stepLog' = "none"
    /\ UNCHANGED <<runVars, composed, args, files_found_error, iter, cfgOnDisk,
                   nInst, ctor, regCount, nInitialized, exitStatus>>

\* mutant: the interruption is logged and the loop goes on
HandleKeyboardInterrupt_Continues ==
    /\ pc = "except"
    /\ exc.kind = "KeyboardInterrupt"
    /\ stepLog' = "warning_keyboard_interrupt"
    /\ pc' = "loop"
    /\ UNCHANGED <<runVars, composed, args, files_found_error, exc, iter, iterEnds,
                   lastWarned, cfgOnDisk, nInst, ctor, regCount, nInitialized, slept,
                   exitStatus>>

\* except KeyboardInterrupt: logger.warning(...); break -- and main returns
HandleKeyboardInterrupt ==
    /\ pc = "except"
    /\ exc.kind = "KeyboardInterrupt"
    /\ stepLog' = "warning_keyboard_interrupt"
    /\ pc' = "returned"
    /\ UNCHANGED <<runVars, composed, args, files_found_error, exc, iter, iterEnds,
                   lastWarned, cfgOnDisk, nInst, ctor, regCount, nInitialized, slept, exitStatus>>

\* except NoFilesError: if files_found_error: logger.warning(...);
\*                                            files_found_error = False
HandleNoFiles ==
    /\ pc = "except"
    /\ exc.kind = "NoFilesError"
    /\ stepLog' = IF files_found_error THEN "warning_no_files" ELSE "none"
    /\ files_found_error' = FALSE
    /\ lastWarned' = files_found_error
    /\ iterEnds' = Push(iterEnds, "nofiles")
    /\ pc' = "nofiles_sleep"
    /\ UNCHANGED <<runVars, composed, args, exc, iter, cfgOnDisk, nInst, ctor,
                   regCount, nInitialized, slept, exitStatus>>

\* time.sleep(1) inside the handler: an interruption here is outside the try
\* body, and `except Exception` of the outer try does not catch it
NoFilesSleep ==
    /\ pc = "nofiles_sleep"
    /\ \/ pc' = "loop" /\ exc' = NoError /\ slept' = TRUE
       \/ pc' = "raised_uncaught" /\ exc' = KeyboardInterrupt /\ UNCHANGED slept
    /\ stepLog' = "none"
    /\ UNCHANGED <<runVars, composed, args, files_found_error, iter, iterEnds,
                   lastWarned, cfgOnDisk, nInst, ctor, regCount, nInitialized, exitStatus>>

\* mutant: no handler for Exception in the loop, the error leaves it
HandleException_Propagates ==
    /\ pc = "except"
    /\ exc.kind = "Exception"
    /\ stepLog' = "none"
    /\ pc' = "outer_except"
    /\ UNCHANGED <<runVars, composed, args, files_found_error, exc, iter, iterEnds,
                   lastWarned, cfgOnDisk, nInst, ctor, regCount, nInitialized, slept, exitStatus>>

\* except Exception, e: logger.warning("Caught exception ..."); continue
HandleException ==
    /\ pc = "except"
    /\ exc.kind = "Exception"
    /\ stepLog' = "warning_caught_exception"
    /\ iterEnds' = Push(iterEnds, "error")
    /\ lastWarned' = FALSE
    /\ pc' = "loop"
    /\ exc' = NoError
    /\ UNCHANGED <<runVars, composed, args, files_found_error, iter, cfgOnDisk,
                   nInst, ctor, regCount, nInitialized, slept, exitStatus>>

Next ==
    \/ Startup
    \/ OneshotRun
    \/ OneshotDone
    \/ OuterExcept
    \/ CheckFiles
    \/ CheckTheme
    \/ ChangedRun
    \/ ChangedDone
    \/ CheckSettings
    \/ Reload
    \/ ReloadRun
    \/ ReloadDone
    \/ Sleep
    \/ HandleKeyboardInterrupt
    \/ HandleNoFiles
    \/ NoFilesSleep
    \/ HandleException
    \/ RunStep

Init ==
    /\ args \in [autoreload : BOOLEAN, debug : BOOLEAN]
    /\ pc = "start"
    /\ files_found_error = TRUE
    /\ exc = NoError
    /\ stepLog = "none"
    /\ iter = 0
    /\ iterEnds = <<>>
    /\ lastWarned = FALSE
    /\ cfgOnDisk \in ConfigIds
    /\ nInst = 0
    /\ ctor = NoCtor
    /\ regCount = [p \in Plugins |-> 0]
    /\ nInitialized = 0
    /\ slept = FALSE
    /\ exitStatus = 0
    /\ pelican = NoPelican
    /\ hookReturn = <<Single("HookGenA")>>
    /\ runSelf = NoPelican
    /\ rpc = "idle"
    /\ RunIdle
    /\ composed = <<>>

Spec == Init /\ [][Next]_vars

----------------------------------------------------------------------------
(* Properties of Pelican.run and of get_generator_classes *)

IsPrefix(a, b) == Len(a) <= Len(b) /\ SubSeq(b, 1, Len(a)) = a

\* the generator indices of the calls of operation `op` made so far, in order
OpIdx(op) ==
    LET sel == SelectSeq(calls, LAMBDA c : c.op = op)
    IN  [k \in 1..Len(sel) |-> sel[k].i]

\* the indices of the generators that expose `op`, ascending
Capable(op) ==
    SelectSeq([i \in 1..Len(generators) |-> i],
              LAMBDA i : IF op = "generate_context"
                         THEN HasContext(generators[i])
                         ELSE HasOutput(generators[i]))

\* C1: in every build, the generate_context calls are made in list order on
\* exactly the generators that expose generate_context, the generate_output
\* calls likewise, no generate_output call is made before every
\* generate_context call has been made and has returned, and no
\* generate_context call follows a generate_output call.
C1_PhasesDoNotInterleave ==
    /\ IsPrefix(OpIdx("generate_context"), Capable("generate_context"))
    /\ IsPrefix(OpIdx("generate_output"), Capable("generate_output"))
    /\ OpIdx("generate_output") /= <<>> =>
          OpIdx("generate_context") = Capable("generate_context")
    /\ rpc = "returned" => OpIdx("generate_output") = Capable("generate_output")
    /\ \A k, m \in 1..Len(calls) :
          k < m /\ calls[k].op = "generate_output" => calls[m].op /= "generate_context"

\* a finished build of six or more generators, one without generate_context
\* and one without generate_output
C1_Witness ==
    /\ rpc = "returned"
    /\ Len(generators) >= 6
    /\ \E i \in 1..Len(generators) : generators[i] = "LessCSSGenerator"
    /\ \E i \in 1..Len(generators) : generators[i] = "HookGenA"
    /\ Len(OpIdx("generate_output")) >= 5

ConditionalOrder ==
    <<"TemplatePagesGenerator", "PdfGenerator", "LessCSSGenerator",
      "SourceFileGenerator">>

FlagOf(settings, cls) ==
    CASE cls = "TemplatePagesGenerator" -> settings.TEMPLATE_PAGES
      [] cls = "PdfGenerator"           -> settings.PDF_GENERATOR
      [] cls = "LessCSSGenerator"       -> settings.LESS_GENERATOR
      [] cls = "SourceFileGenerator"    -> settings.OUTPUT_SOURCES

\* every item the subscribers returned, in return order
RECURSIVE Flatten(_)
Flatten(pairs) ==
    IF pairs = <<>> THEN <<>>
    ELSE (IF Head(pairs).isSeq THEN Head(pairs).elems ELSE <<Head(pairs).val>>)
         \o Flatten(Tail(pairs))

ExpectedClasses(settings, hooks) ==
    <<"StaticGenerator", "ArticlesGenerator", "PagesGenerator">>
    \o SelectSeq(ConditionalOrder, LAMBDA c : FlagOf(settings, c))
    \o SelectSeq(Flatten(hooks), LAMBDA v : v \in Types)

\* C2: every call of get_generator_classes returns Static, Articles, Pages,
\* then the enabled conditional generators in the order TemplatePages, Pdf,
\* LessCSS, SourceFile, then the types the subscribers returned, in return
\* order with tuples expanded; repeated calls return the same list.
C2_ComposedOrder ==
    \A n \in 1..Len(composed) :
        /\ composed[n] = ExpectedClasses(pelican.settings, hookReturn)
        /\ composed[n] = composed[1]

\* two calls with TEMPLATE_PAGES and LESS_GENERATOR set, PDF_GENERATOR and
\* OUTPUT_SOURCES unset, a tuple and a single type from the hook
C2_Witness ==
    /\ Len(composed) = 2
    /\ pelican.settings.TEMPLATE_PAGES /\ ~pelican.settings.PDF_GENERATOR
    /\ pelican.settings.LESS_GENERATOR /\ ~pelican.settings.OUTPUT_SOURCES
    /\ hookReturn = <<Tuple(<<"HookGenB", "HookGenA">>), Single("HookGenA")>>
    /\ composed[2] = <<"StaticGenerator", "ArticlesGenerator", "PagesGenerator",
                       "TemplatePagesGenerator", "LessCSSGenerator",
                       "HookGenB", "HookGenA", "HookGenA">>

\* clean_output_dir was called by the build in progress
Cleaned == \E k \in 1..Len(calls) : calls[k].op = "clean_output_dir"

\* p is q or an ancestor directory of q
IsPathPrefix(p, q) == p = q \/ startswith(q, p \o <<"/">>)

C4_BothPathsResolved ==
    Cleaned =>
        /\ runSelf.delete_outputdir
        /\ ~startswith(realpath(runSelf.path), realpath(runSelf.output_path))

----------------------------------------------------------------------------
(* Properties of main *)

\* positions of main after which nothing of main runs
Terminal == {"returned", "exited", "raised_startup", "raised_debug", "raised_uncaught"}

\* positions inside the autoreload loop (the try body and its handlers)
InLoop == {"loop", "check_theme", "changed", "run_changed", "check_settings",
           "reload", "reloaded", "run_reload", "sleep", "except", "nofiles_sleep"}

Warnings == {"warning_no_files", "warning_caught_exception",
             "warning_keyboard_interrupt"}

\* C5: the no-files warning is logged by an iteration that ends in the
\* no-files condition exactly when that iteration is the first of its run,
\* that is when the loop's first iteration or the iteration before it did
\* not end in the no-files condition.
C5_WarnOncePerRun ==
    (iterEnds /= <<>> /\ iterEnds[Len(iterEnds)] = "nofiles") =>
        (lastWarned <=> (Len(iterEnds) = 1 \/ iterEnds[1] /= "nofiles"))

\* C6 as stated: every error other than KeyboardInterrupt raised in a poll
\* iteration is caught, logged as a warning and followed by the loop going
\* on; the loop ends on a KeyboardInterrupt only.
C6_Original ==
    [][ /\ (pc = "except" /\ exc.kind /= "KeyboardInterrupt") =>
              (stepLog' \in Warnings /\ pc' \in {"loop", "nofiles_sleep"})
        /\ (pc \in InLoop /\ pc' \in Terminal) => exc'.kind = "KeyboardInterrupt"
      ]_vars

\* C6 as amended: every such error is caught and the loop goes on; it is
\* logged as a warning, except a NoFilesError raised while the warn-once gate
\* is already in the warned state, which is caught silently; the loop ends on
\* a KeyboardInterrupt only.
C6_CaughtAndLoopContinues ==
    [][ /\ (pc = "except" /\ exc.kind /= "KeyboardInterrupt") =>
              /\ pc' \in {"loop", "nofiles_sleep"}
              /\ stepLog' \in Warnings \cup {"none"}
              /\ stepLog' = "none" <=>
                    (exc.kind = "NoFilesError" /\ ~files_found_error)
        /\ (pc \in InLoop /\ pc' \in Terminal) => exc'.kind = "KeyboardInterrupt"
      ]_vars

\* an iteration ended in an Exception that was caught, and the iteration
\* after it in a NoFilesError that was caught without a warning, the gate
\* being in the warned state since an earlier iteration
C6_Witness ==
    /\ iterEnds = <<"error", "nofiles">>
    /\ ~lastWarned
    /\ stepLog = "none"
    /\ pc = "nofiles_sleep"

\* C7: in watch mode a KeyboardInterrupt that ends the loop is logged with
\* the 'Keyboard interrupt, quitting.' warning and main returns; it does not
\* propagate.
C7_InterruptExitsCleanly ==
    (args.autoreload /\ pc \in Terminal \ {"raised_startup"}
                     /\ exc.kind = "KeyboardInterrupt")
    => (pc = "returned" /\ stepLog = "warning_keyboard_interrupt")

\* C8: a successful get_instance after a detected configuration change makes
\* the new instance, built from the settings just read, the current one; the
\* next step runs a build with it; and every build, in that and in every
\* later iteration, is started on the most recently constructed instance.
C8_ReloadReplacesInstance ==
    [][ /\ (pc = "reload" /\ pc' /= "except") =>
              /\ pc' = "reloaded"
              /\ pelican'.id = nInst' /\ nInst' = nInst + 1
              /\ pelican'.settings = Configs(cfgOnDisk)
        /\ pc = "reloaded" =>
              (pc' = "run_reload" /\ rpc' = "start" /\ runSelf' = pelican
               /\ iter' = iter)
        /\ (rpc' = "start" /\ rpc /= "start") =>
              (runSelf' = pelican /\ runSelf'.id = nInst)
      ]_vars

\* a build started by a source change, in an iteration after a reload, has
\* finished on the second instance
C8_Witness ==
    /\ pc = "run_changed"
    /\ rpc = "returned"
    /\ nInst = 2
    /\ runSelf.id = 2
    /\ runSelf.settings = Configs(2)

\* the elements of a sequence
Range(seq) == {seq[i] : i \in 1..Len(seq)}

\* C9 as stated: over the whole process no plugin's register() is invoked
\* more than once, and a build runs only when every plugin of its instance
\* has been registered exactly once.
C9_Original ==
    /\ \A p \in Plugins : regCount[p] <= 1
    /\ rpc /= "idle" => \A p \in Range(runSelf.settings.PLUGINS) : regCount[p] = 1

\* C9 as amended: every construction of an orchestrator (at start-up and at
\* every configuration reload) invokes register() once for each entry of the
\* PLUGINS list of the settings it was given, in list order, before any build
\* of that instance; a reload registers the listed plugins again, whether or
\* not they were registered before.
C9_RegisteredPerConstruction ==
    /\ ctor.cfg /= 0 => IsPrefix(ctor.regLog, Configs(ctor.cfg).PLUGINS)
    /\ ctor.ok => ctor.regLog = Configs(ctor.cfg).PLUGINS
    /\ rpc /= "idle" => \A p \in Range(runSelf.settings.PLUGINS) : regCount[p] >= 1
    /\ \A p \in Plugins :
          (\A c \in ConfigIds : p \in Range(Configs(c).PLUGINS)) => regCount[p] >= nInst

\* after a reload that succeeded, p1 has been registered twice and p2 once
C9_Witness ==
    /\ pc = "reloaded"
    /\ ctor.ok /\ ctor.regLog = <<"p1", "p2">>
    /\ regCount["p1"] = 2 /\ regCount["p2"] = 1

\* C10: an Exception raised by the first get_instance call ends the process
\* with a critical log line, re-raised under DEBUG and otherwise with exit
\* status the error's exitcode attribute, or 1 without one.
C10_StartupErrorHandled ==
    (nInst = 0 /\ ctor.cfg /= 0 /\ ~ctor.ok /\ IsException(exc)) =>
        /\ stepLog = "critical"
        /\ IF args.debug THEN pc = "raised_debug"
           ELSE pc = "exited" /\ exitStatus = ExitcodeOf(exc)

----------------------------------------------------------------------------
(* The build context, the hook contributions, the notifications *)

\* operation `op` of generator i was called by the build in progress
Called(op, i) == \E k \in 1..Len(calls) : calls[k] = Call(op, i)

\* the marks of the generators that populate the context, among the first n
ContextMarks(n) == {i \in 1..n : HasContext(generators[i])}

\* C11: within one build there is one context object, a copy of the settings
\* made when the build starts, and every generator instance holds it; so
\* generator j sees in its generate_context call what every generator before
\* it added in its own, and every generator sees in its generate_output call
\* what all of them added.
C11_SharedBuildContext ==
    rpc \notin {"idle", "start"} =>
        /\ Len(genObj) = Len(generators)
        /\ \A j \in 1..Len(genObj) :
              /\ genObj[j].context = genObj[1].context
              /\ Called("generate_context", j) =>
                    genObj[j].sawInContext =
                        SettingsContent \cup ContextMarks(j - 1)
              /\ Called("generate_output", j) =>
                    genObj[j].sawInOutput =
                        SettingsContent \cup ContextMarks(Len(generators))
        /\ context[genObj[1].context] =
              SettingsContent
              \cup {i \in 1..Len(generators) : Called("generate_context", i)}

\* a finished build of five generators or more: the fourth to populate the
\* context saw the marks of the three before it, the last to emit saw all
C11_Witness ==
    /\ rpc = "returned"
    /\ Len(generators) >= 5
    /\ HasContext(generators[4])
    /\ genObj[4].sawInContext = {0, 1, 2, 3}
    /\ HasOutput(generators[Len(generators)])
    /\ Cardinality(genObj[Len(generators)].sawInOutput) >= 5

\* C12: a hook contribution that is not a type, returned alone or inside a
\* tuple or list, is dropped: every call of get_generator_classes returns a
\* list (no error), every element of the list is a type, and after the fixed
\* and the conditional generators the list holds exactly the types of the
\* hook results, every one of them, in return order.
C12_NonTypesDropped ==
    \A n \in 1..Len(composed) :
        LET fixed == Len(ConditionalGenerators(BaseGenerators, pelican.settings))
        IN  /\ \A k \in 1..Len(composed[n]) :
                  IsType(composed[n][k]) /\ composed[n][k] \notin NonTypes
            /\ Len(composed[n]) >= fixed
            /\ SubSeq(composed[n], fixed + 1, Len(composed[n])) =
                  SelectSeq(Flatten(hookReturn), IsType)

\* a subscriber returned a non-type alone, another a tuple of a non-type and
\* a type: the list ends with that type and holds no non-type
C12_Witness ==
    /\ Len(composed) >= 1
    /\ hookReturn = <<Single("not_a_type"), Tuple(<<"not_a_type", "HookGenB">>)>>
    /\ ~pelican.settings.TEMPLATE_PAGES /\ ~pelican.settings.PDF_GENERATOR
    /\ ~pelican.settings.LESS_GENERATOR /\ ~pelican.settings.OUTPUT_SOURCES
    /\ composed[1] = <<"StaticGenerator", "ArticlesGenerator", "PagesGenerator",
                       "HookGenB">>

\* signals.finalized was sent by the build in progress, how many times
Finalized == Cardinality({k \in 1..Len(calls) : calls[k].op = "finalized"})

\* C13: every constructed instance sent `initialized` once, after all the
\* register() calls of its PLUGINS and before any build (a build runs on a
\* constructed instance only); a construction that failed sent none; a build
\* sends `finalized` once, as its last step, after the generate_output calls
\* of all generators that expose it, and a build in which a call failed sends
\* none.
C13_LifecycleNotifications ==
    /\ nInitialized = nInst
    /\ ctor.initialized <=> ctor.ok
    /\ ctor.initialized => ctor.regLog = Configs(ctor.cfg).PLUGINS
    /\ rpc /= "idle" => (runSelf.id \in 1..nInitialized /\ runSelf = pelican)
    /\ Finalized <= 1
    /\ Finalized = 1 <=> rpc = "returned"
    /\ Finalized = 1 =>
          /\ calls[Len(calls)].op = "finalized"
          /\ OpIdx("generate_output") = Capable("generate_output")
    /\ rpc = "raised" => Finalized = 0

\* the build of the second instance, constructed by a reload with two
\* plugins, has returned
C13_Witness ==
    /\ pc = "run_reload"
    /\ rpc = "returned"
    /\ nInst = 2 /\ nInitialized = 2
    /\ ctor.regLog = <<"p1", "p2">>
    /\ Finalized = 1

----------------------------------------------------------------------------
(* Failures and the clearing of the output directory *)

\* the operations a build calls that may fail
Failing == {"generate_context", "clean_output_dir", "generate_output"}

\* C14: an error raised by a call ends the build at that call and leaves
\* run: what the build did before stays (the calls made, the content of the
\* context), the failing call is the last thing the build does, and no step
\* of the build follows; after a failure in generate_context nothing was
\* cleared and no generate_output was called, after a failure in
\* generate_output of generator i no later generator was called.
C14_FailureAbortsBuild ==
    [][ /\ rpc /= "raised"
        /\ rexc' /= NoError <=> rpc' = "raised"
        /\ rpc' = "raised" =>
              /\ rexc' \in Errors
              /\ \E c \in {Call(op, idx) : op \in Failing} \cup {Call("clean_output_dir", 0)} :
                    calls' = Append(calls, c)
              /\ \A o \in DOMAIN context : context[o] \subseteq context'[o]
              /\ idx' = idx /\ generators' = generators
              /\ rpc = "context" /\ idx <= Len(generators) =>
                    /\ calls'[Len(calls')] = Call("generate_context", idx)
                    /\ \A k \in 1..Len(calls') :
                          /\ calls'[k].op = "generate_context"
                          /\ calls'[k].i <= idx
              /\ rpc = "output" =>
                    /\ calls'[Len(calls')] = Call("generate_output", idx)
                    /\ \A k \in 1..Len(calls') :
                          calls'[k].op = "generate_output" => calls'[k].i <= idx
      ]_vars

\* generate_output of the second generator failed, after the directory was
\* cleared and the first generator had emitted: that all stays
C14_Witness ==
    /\ rpc = "raised"
    /\ rexc.kind = "Exception"
    /\ calls[Len(calls)] = Call("generate_output", 2)
    /\ Called("generate_output", 1)
    /\ Cleaned
    /\ context[1] = SettingsContent \cup ContextMarks(Len(generators))

\* the build is past the decision whether to clear
PastDecision ==
    \/ rpc \in {"writer", "wire", "output", "returned"}
    \/ \E k \in 1..Len(calls) : calls[k].op \in {"Writer", "generate_output"}

\* C15: a build clears the output directory at most once, and once past the
\* decision it has cleared it exactly when the condition holds; the clearing
\* comes after the generate_context calls of all generators that expose it,
\* and before the writer is created and before every generate_output call.
C15_ClearedOnceBetweenPhases ==
    /\ Cardinality({k \in 1..Len(calls) : calls[k].op = "clean_output_dir"}) <= 1
    /\ PastDecision => (Cleaned <=> ShouldClean(runSelf))
    /\ Cleaned => OpIdx("generate_context") = Capable("generate_context")
    /\ \A k, m \in 1..Len(calls) :
          (k < m /\ calls[m].op = "clean_output_dir") =>
              calls[k].op = "generate_context"

\* a finished build that cleared the directory and then emitted with four
\* generators or more
C15_Witness ==
    /\ rpc = "returned"
    /\ Cleaned
    /\ Len(OpIdx("generate_context")) >= 4
    /\ Len(OpIdx("generate_output")) >= 4

----------------------------------------------------------------------------
(* The autoreload loop: the gate, interruptions, the sleep, reloads *)

\* positions of main at which a build of the loop is in progress
LoopBuild == {"run_changed", "run_reload"}

\* C16: the warn-once gate is re-armed by, and only by, a build that
\* succeeds: the gate goes from warned to armed only in the step in which a
\* build of the loop returns, and every build of the loop that returns
\* leaves the gate armed.
C16_GateRearmedBySuccessfulBuild ==
    [][ /\ (~files_found_error /\ files_found_error') =>
              (pc \in LoopBuild /\ rpc = "returned")
        /\ (pc \in LoopBuild /\ rpc = "returned" /\ pc' /= pc) =>
              files_found_error'
      ]_vars

\* C17 as stated: a build of the loop is not left by an interruption; when
\* one ends with a KeyboardInterrupt, every generator call of the build has
\* been made.
C17_Original ==
    (pc \in LoopBuild /\ rexc.kind = "KeyboardInterrupt") =>
        /\ OpIdx("generate_context") = Capable("generate_context")
        /\ OpIdx("generate_output") = Capable("generate_output")

\* C17 as amended: a KeyboardInterrupt is acted on wherever in the try body
\* it is raised, also inside a build: it ends the build at the call in which
\* it is raised, the loop handles it in the same iteration without another
\* generator call, logs the warning, and main returns.
C17_InterruptAbortsBuild ==
    [][ /\ (rexc'.kind = "KeyboardInterrupt" /\ rexc = NoError) =>
              /\ rpc' = "raised"
              /\ Len(calls') = Len(calls) + 1
              /\ calls'[Len(calls')].op \in Failing
        /\ (pc \in LoopBuild /\ rexc.kind = "KeyboardInterrupt") =>
              /\ rpc = "raised"
              /\ pc' = "except" /\ exc' = KeyboardInterrupt
              /\ iter' = iter
        /\ (pc = "except" /\ exc.kind = "KeyboardInterrupt") =>
              /\ pc' = "returned"
              /\ stepLog' = "warning_keyboard_interrupt"
              /\ iter' = iter /\ rpc' = rpc
      ]_vars

\* a build of the loop, of four generators, was interrupted in its first
\* generate_context call: no other call was made
C17_Witness ==
    /\ pc = "run_changed"
    /\ rpc = "raised"
    /\ rexc.kind = "KeyboardInterrupt"
    /\ Len(generators) = 4
    /\ calls = <<Call("generate_context", 1)>>

\* the build has passed the statement that wires the asset environment
PastWire ==
    \/ rpc \in {"output", "returned"}
    \/ \E k \in 1..Len(calls) : calls[k].op = "generate_output"

\* C18: the list starts with the Static, the Articles and the Pages
\* generator whatever the flags and the hooks; with WEBASSETS set, from the
\* end of phase 1 and before the first generate_output call the Articles and
\* the Pages instance refer to the asset environment of the Static instance,
\* and not before; no other reference is set, and none with WEBASSETS unset.
C18_AssetEnvironmentWired ==
    rpc \notin {"idle", "start"} =>
        /\ SubSeq(generators, 1, 3) =
              <<"StaticGenerator", "ArticlesGenerator", "PagesGenerator">>
        /\ \A i \in 1..Len(genObj) :
              genObj[i].assets_environment =
                  IF runSelf.settings.WEBASSETS /\ PastWire /\ i \in {2, 3}
                  THEN genObj[1].assets_env
                  ELSE 0
        /\ genObj[1].assets_env /= 0

\* a finished build of five generators or more with WEBASSETS set
C18_Witness ==
    /\ rpc = "returned"
    /\ runSelf.settings.WEBASSETS
    /\ Len(generators) >= 5
    /\ genObj[2].assets_environment = genObj[1].assets_env
    /\ genObj[3].assets_environment = genObj[1].assets_env
    /\ genObj[4].assets_environment = 0

\* C19: the loop sleeps between any two consecutive iterations: whenever it
\* is about to check for changes again, a sleep has returned since the
\* change check of the iteration before.
C19_SleepBetweenIterations ==
    (pc = "loop" /\ iter >= 1) => slept

\* C20: a get_instance call of the loop that raises leaves the current
\* instance as it is; the current instance changes only when a get_instance
\* call returns, to the instance it returned; every build is started on the
\* current instance; and a build that fails, of a new instance as of an old
\* one, leaves the current instance as it is.
C20_FailedReloadKeepsInstance ==
    [][ /\ (pc = "reload" /\ pc' = "except") =>
              (pelican' = pelican /\ nInst' = nInst /\ ~ctor'.ok)
        /\ pelican' /= pelican =>
              /\ pc \in {"start", "reload"}
              /\ ctor'.ok
              /\ pelican' = NewPelican(nInst + 1, Configs(cfgOnDisk))
        /\ (pc \in {"changed", "reloaded"}) => runSelf' = pelican
        /\ (pc \in LoopBuild /\ rpc = "raised") =>
              (pelican' = pelican /\ pelican.id = nInst)
      ]_vars

\* a reload failed in the first or second iteration; in a later iteration a
\* build started by a source change has finished on the first instance
C20_Witness ==
    /\ iter >= 2
    /\ pc = "run_changed"
    /\ rpc = "returned"
    /\ nInst = 1 /\ runSelf.id = 1 /\ pelican.id = 1
    /\ ctor.cfg /= 0 /\ ~ctor.ok
    /\ ctor.regLog = <<"p1">>

====
